---- MODULE Spec2Model ----
(***************************************************************************)
(* Model of analiseRip.py: a single-pass script that loads a wide table    *)
(* (identifier column + month blocks of two value columns), renames the    *)
(* value columns in pairs, melts the table to long form, lets the user     *)
(* choose indicators / months / breeds, outer-merges one projection per    *)
(* chosen indicator on (Mes_nome, Raca), sorts and renders.                *)
(*                                                                         *)
(* Strings are sequences of one-character strings, so that stripping,      *)
(* lower-casing, slicing, splitting on "." and lexicographic comparison    *)
(* are computed as the code computes them.  "a_acute" and "c_cedilla"      *)
(* stand for the precomposed characters U+00E1 and U+00E7, "acute" and     *)
(* "cedilla" for the combining marks U+0301 and U+0327 (category Mn).      *)
(* Numeric cells are integers in thousandths; rounded cells in hundredths. *)
(***************************************************************************)
EXTENDS Integers, Sequences, FiniteSets, TLC

VARIABLES pc, source, df, orig, warnings, crash, df_final, meses_disponiveis,
          indicadores, indicadores_selec, meses_escolhidos, racas_escolhidas,
          df_merge, df_show, table_rendered, chart, name_in, name_out

vars == <<pc, source, df, orig, warnings, crash, df_final, meses_disponiveis,
          indicadores, indicadores_selec, meses_escolhidos, racas_escolhidas,
          df_merge, df_show, table_rendered, chart, name_in, name_out>>

\* ---------------------------------------------------------------- bounds
\* largest number of value columns of a source table
MaxCols == 4
\* largest number of rows of a source table
MaxRows == 2
\* longest enumerated input string of canonical_month
MaxLen == 4

\* ------------------------------------------------------- generic helpers
Range(s) == {s[i] : i \in 1..Len(s)}

Min(a, b) == IF a < b THEN a ELSE b

IsInjective(s) == \A i, j \in 1..Len(s) : s[i] = s[j] => i = j

\* all sequences without repetition over the elements of S, up to length n
DistinctSeqs(S, n) ==
    {s \in UNION {[1..k -> S] : k \in 0..Min(n, Cardinality(S))} : IsInjective(s)}

RECURSIVE Flatten(_)
Flatten(ss) == IF ss = <<>> THEN <<>> ELSE Head(ss) \o Flatten(Tail(ss))

\* the elements of s at the positions in keep, in their original order
RECURSIVE SelectIdx(_, _, _)
SelectIdx(s, keep, i) ==
    IF i > Len(s) THEN <<>>
    ELSE (IF i \in keep THEN <<s[i]>> ELSE <<>>) \o SelectIdx(s, keep, i + 1)

\* code point order of the characters that are ever compared
CodeOrder ==
    <<" ", ".", "A", "B", "C", "D", "E", "F", "G", "H", "I", "J", "K", "L", "M",
      "N", "O", "P", "Q", "R", "S", "T", "U", "V", "W", "X", "Y", "Z", "_",
      "a", "b", "c", "d", "e", "f", "g", "h", "i", "j", "k", "l", "m",
      "n", "o", "p", "q", "r", "s", "t", "u", "v", "w", "x", "y", "z">>

Code(c) == CHOOSE i \in 1..Len(CodeOrder) : CodeOrder[i] = c

\* Python's < on two strings
RECURSIVE StrLess(_, _)
StrLess(a, b) ==
    IF b = <<>> THEN FALSE
    ELSE IF a = <<>> THEN TRUE
    ELSE IF Head(a) = Head(b) THEN StrLess(Tail(a), Tail(b))
    ELSE Code(Head(a)) < Code(Head(b))

\* ------------------------------------------------------------ characters
UpperChars ==
    <<"A", "B", "C", "D", "E", "F", "G", "H", "I", "J", "K", "L", "M",
      "N", "O", "P", "Q", "R", "S", "T", "U", "V", "W", "X", "Y", "Z">>

LowerChars ==
    <<"a", "b", "c", "d", "e", "f", "g", "h", "i", "j", "k", "l", "m",
      "n", "o", "p", "q", "r", "s", "t", "u", "v", "w", "x", "y", "z">>

Whitespace == {" "}

CombiningMarks == {"acute", "cedilla"}

\* unicodedata.normalize("NFD", .) on one character
Decompose(c) ==
    CASE c = "a_acute" -> <<"a", "acute">>
      [] c = "c_cedilla" -> <<"c", "cedilla">>
      [] OTHER -> <<c>>

NFD(s) == Flatten([i \in 1..Len(s) |-> Decompose(s[i])])

IsMn(c) == c \in CombiningMarks

strip_accents(s) == SelectSeq(NFD(s), LAMBDA ch : ~IsMn(ch))

RECURSIVE lstrip(_)
lstrip(s) == IF s # <<>> /\ Head(s) \in Whitespace THEN lstrip(Tail(s)) ELSE s

RECURSIVE rstrip(_)
rstrip(s) ==
    IF s # <<>> /\ s[Len(s)] \in Whitespace THEN rstrip(SubSeq(s, 1, Len(s) - 1)) ELSE s

strip(s) == rstrip(lstrip(s))

lower_char(c) ==
    IF \E i \in 1..Len(UpperChars) : UpperChars[i] = c
    THEN LowerChars[CHOOSE i \in 1..Len(UpperChars) : UpperChars[i] = c]
    ELSE c

lower(s) == [i \in 1..Len(s) |-> lower_char(s[i])]

\* s[:3]
Slice3(s) == SubSeq(s, 1, Min(Len(s), 3))

\* -------------------------------------------------------- month names
Janeiro == <<"J", "a", "n", "e", "i", "r", "o">>
Fevereiro == <<"F", "e", "v", "e", "r", "e", "i", "r", "o">>
Marco == <<"M", "a", "r", "c", "o">>
Abril == <<"A", "b", "r", "i", "l">>
Maio == <<"M", "a", "i", "o">>
Junho == <<"J", "u", "n", "h", "o">>
Julho == <<"J", "u", "l", "h", "o">>
Agosto == <<"A", "g", "o", "s", "t", "o">>
Setembro == <<"S", "e", "t", "e", "m", "b", "r", "o">>
Outubro == <<"O", "u", "t", "u", "b", "r", "o">>
Novembro == <<"N", "o", "v", "e", "m", "b", "r", "o">>
Dezembro == <<"D", "e", "z", "e", "m", "b", "r", "o">>

mapa ==
    (<<"j", "a", "n">> :> Janeiro) @@ (<<"f", "e", "v">> :> Fevereiro) @@
    (<<"m", "a", "r">> :> Marco) @@ (<<"a", "b", "r">> :> Abril) @@
    (<<"m", "a", "i">> :> Maio) @@ (<<"j", "u", "n">> :> Junho) @@
    (<<"j", "u", "l">> :> Julho) @@ (<<"a", "g", "o">> :> Agosto) @@
    (<<"s", "e", "t">> :> Setembro) @@ (<<"o", "u", "t">> :> Outubro) @@
    (<<"n", "o", "v">> :> Novembro) @@ (<<"d", "e", "z">> :> Dezembro)

\* mutant of canonical_month: the unmatched case returns the normalised string
canonical_month_returns_normalised(name) ==
    LET s == lower(strip(strip_accents(name)))
        key == Slice3(s)
    IN IF key \in DOMAIN mapa THEN mapa[key] ELSE s

\* canonical_month on a string argument
canonical_month(name) ==
    LET s == lower(strip(strip_accents(name)))
        key == Slice3(s)
    IN IF key \in DOMAIN mapa THEN mapa[key] ELSE name

ordem_meses ==
    <<Janeiro, Fevereiro, Marco, Abril, Maio, Junho,
      Julho, Agosto, Setembro, Outubro, Novembro, Dezembro>>

Hibrido == <<"H", "i", "b", "r", "i", "d", "o">>
Zebu == <<"Z", "e", "b", "u">>
racas == <<Zebu, Hibrido>>

\* ------------------------------------------------------------------ cells
\* a blank (NaN) cell and a cell holding x
Null == [null |-> TRUE]
Val(x) == [null |-> FALSE, v |-> x]

\* ---------------------------------------------------------- source tables
IndicadorHdr == <<"I", "n", "d", "i", "c", "a", "d", "o", "r">>
JanHib == <<"J", "a", "n", "_", "H", "i", "b">>
JanZeb == <<"J", "a", "n", "_", "Z", "e", "b">>
FevHib == <<"F", "e", "v", "_", "H", "i", "b">>
FevZeb == <<"F", "e", "v", "_", "Z", "e", "b">>
Obs == <<"O", "b", "s">>

\* the month-block layout of the input contract: (Hybrid, Zebu) per month
Layout == <<JanHib, JanZeb, FevHib, FevZeb>>
\* headers in free order: two of one month, one of another, and one that is no month
HeaderPool == {JanHib, JanZeb, FevHib, Obs}

GMD == <<"G", "M", "D">>
Peso == <<"P", "e", "s", "o">>
IndicatorNames == {GMD, Peso}

\* the number in row i, value column j: 11.456, 12.111, 13.456, ... (thousandths)
CellValue(i, j) == (10 * i + j) * 1000 + (IF j % 2 = 1 THEN 456 ELSE 111)

\* how a value column is filled: every row, no row, or the first row only
Patterns == {"full", "blank", "top"}

Cell(i, j, pat) ==
    IF pat = "full" \/ (pat = "top" /\ i = 1) THEN Val(CellValue(i, j)) ELSE Null

MakeTable(hdrs, ids, pats) ==
    [columns |-> <<IndicadorHdr>> \o hdrs,
     data |-> [i \in 1..Len(ids) |->
                  <<ids[i]>> \o [j \in 1..Len(hdrs) |-> Cell(i, j, pats[j])]]]

\* identifier columns: every row named, or the last of several rows unnamed
IdLists == UNION {[1..r -> {Val(n) : n \in IndicatorNames}] : r \in 0..MaxRows}
IdListsLastBlank == {Append(ids, Null) : ids \in {x \in IdLists : Len(x) \in 1..(MaxRows - 1)}}

\* any headers in any order, every cell filled
HeaderVariedTables ==
    {MakeTable(h, ids, [j \in 1..Len(h) |-> "full"]) :
        h \in DistinctSeqs(HeaderPool, MaxCols), ids \in IdLists}

\* the first columns of the contract's layout, any pattern of blank cells
BlankVariedTables ==
    UNION {{MakeTable(SubSeq(Layout, 1, c), ids, pats) :
               pats \in [1..c -> Patterns], ids \in IdLists \cup IdListsLastBlank} :
           c \in 0..Len(Layout)}

SourceTables == HeaderVariedTables \cup BlankVariedTables

\* ------------------------------------------------------------------- load
\* df.dropna(how="all")
DropBlankRows(t) ==
    [t EXCEPT !.data = SelectSeq(t.data, LAMBDA r : \E j \in 1..Len(r) : ~r[j].null)]

\* df.dropna(axis=1, how="all")
DropBlankCols(t) ==
    LET keep == {j \in 1..Len(t.columns) : \E i \in 1..Len(t.data) : ~t.data[i][j].null}
    IN [columns |-> SelectIdx(t.columns, keep, 1),
        data |-> [i \in 1..Len(t.data) |-> SelectIdx(t.data[i], keep, 1)]]

LoadTable(t) == DropBlankCols(DropBlankRows(t))

\* ----------------------------------------------------------------- rename
Suffix(raca) == <<".">> \o raca

\* mutant of PairNames: the Zebu column is named after its own header
RECURSIVE PairNames_second_header(_)
PairNames_second_header(mes_cols) ==
    IF Len(mes_cols) < 2 THEN <<>>
    ELSE <<canonical_month(mes_cols[1]) \o Suffix(Hibrido),
           canonical_month(mes_cols[2]) \o Suffix(Zebu)>>
         \o PairNames_second_header(SubSeq(mes_cols, 3, Len(mes_cols)))

\* the loop over range(0, len(mes_cols), 2); len(mes_cols) is even
RECURSIVE PairNames(_)
PairNames(mes_cols) ==
    IF Len(mes_cols) < 2 THEN <<>>
    ELSE LET mes_canon == canonical_month(mes_cols[1])
         IN <<mes_canon \o Suffix(Hibrido), mes_canon \o Suffix(Zebu)>>
            \o PairNames(SubSeq(mes_cols, 3, Len(mes_cols)))

IsOdd(n) == n % 2 # 0

TruncatedMesCols(cols) ==
    LET mes_cols == Tail(cols)
    IN IF IsOdd(Len(mes_cols)) THEN SubSeq(mes_cols, 1, Len(mes_cols) - 1) ELSE mes_cols

novos_nomes(cols) == <<cols[1]>> \o PairNames(TruncatedMesCols(cols))

\* ---------------------------------------------------------------- reshape
\* df.melt(id_vars=[indicador_col], var_name="Mes_Raca", value_name="Valor")
Melt(t) ==
    Flatten([jj \in 1..(Len(t.columns) - 1) |->
                [i \in 1..Len(t.data) |->
                    [Indicador |-> t.data[i][1],
                     Mes_Raca |-> t.columns[jj + 1],
                     Valor |-> t.data[i][jj + 1]]]])

HasDot(s) == \E i \in 1..Len(s) : s[i] = "."
FirstDot(s) == CHOOSE i \in 1..Len(s) : s[i] = "." /\ \A k \in 1..(i - 1) : s[k] # "."

\* str.split(".", n=1, expand=True): the part before and after the first "."
SplitMesRaca(s) ==
    IF HasDot(s)
    THEN <<SubSeq(s, 1, FirstDot(s) - 1), SubSeq(s, FirstDot(s) + 1, Len(s))>>
    ELSE <<s, <<>>>>

LongRecords(t) ==
    LET m == Melt(t)
    IN [k \in 1..Len(m) |->
           [Indicador |-> m[k].Indicador,
            Mes_nome |-> SplitMesRaca(m[k].Mes_Raca)[1],
            Raca |-> SplitMesRaca(m[k].Mes_Raca)[2],
            Valor |-> m[k].Valor]]

\* df_long[df_long["Raca"].isin(["Zebu","Hibrido"])]
KeepKnownBreeds(recs) == SelectSeq(recs, LAMBDA r : r.Raca \in {Zebu, Hibrido})

MesesDisponiveis(recs) ==
    SelectSeq(ordem_meses, LAMBDA m : m \in {recs[k].Mes_nome : k \in 1..Len(recs)})

\* the elements of S in increasing order
SortStrings(S) ==
    [i \in 1..Cardinality(S) |->
        CHOOSE x \in S : Cardinality({y \in S : StrLess(y, x)}) = i - 1]

\* sorted(df_final[indicador_col].dropna().unique())
Indicadores(recs) ==
    SortStrings({recs[k].Indicador.v : k \in {n \in 1..Len(recs) : ~recs[n].Indicador.null}})

\* ------------------------------------------------------------------ pivot
\* mutant of DfInd: the indicator condition of the row filter is missing
DfInd_any_indicator(recs, ind, meses, rs) ==
    LET sel == SelectSeq(recs, LAMBDA r :
                   /\ r.Mes_nome \in Range(meses)
                   /\ r.Raca \in Range(rs))
    IN [k \in 1..Len(sel) |->
           [Mes_nome |-> sel[k].Mes_nome, Raca |-> sel[k].Raca, Valor |-> sel[k].Valor]]

\* df_final[(indicador == ind) & Mes_nome.isin(meses) & Raca.isin(rs)][[Mes_nome, Raca, Valor]]
DfInd(recs, ind, meses, rs) ==
    LET sel == SelectSeq(recs, LAMBDA r :
                   /\ r.Indicador = Val(ind)
                   /\ r.Mes_nome \in Range(meses)
                   /\ r.Raca \in Range(rs))
    IN [k \in 1..Len(sel) |->
           [Mes_nome |-> sel[k].Mes_nome, Raca |-> sel[k].Raca, Valor |-> sel[k].Valor]]

KeyOf(r) == <<r.Mes_nome, r.Raca>>

KeyLess(a, b) == StrLess(a[1], b[1]) \/ (a[1] = b[1] /\ StrLess(a[2], b[2]))

SortKeys(S) ==
    [i \in 1..Cardinality(S) |->
        CHOOSE x \in S : Cardinality({y \in S : KeyLess(y, x)}) = i - 1]

\* the rows of an outer merge for one key: the product of the two sides' rows,
\* or one side's rows with the other side's columns blank
MergeKey(left, right, leftInds, ind, key) ==
    LET L == SelectSeq(left, LAMBDA r : KeyOf(r) = key)
        R == SelectSeq(right, LAMBDA r : KeyOf(r) = key)
        Row(lv, rv) == [Mes_nome |-> key[1], Raca |-> key[2], Valor |-> lv @@ (ind :> rv)]
        blankLeft == [x \in leftInds |-> Null]
    IN IF L = <<>> THEN [j \in 1..Len(R) |-> Row(blankLeft, R[j].Valor)]
       ELSE IF R = <<>> THEN [i \in 1..Len(L) |-> Row(L[i].Valor, Null)]
       ELSE Flatten([i \in 1..Len(L) |-> [j \in 1..Len(R) |-> Row(L[i].Valor, R[j].Valor)]])

\* mutant of OuterMerge: the two frames are stacked (pd.concat), not joined on the key
OuterMerge_concat(left, right, leftInds, ind) ==
    [i \in 1..Len(left) |-> [left[i] EXCEPT !.Valor = left[i].Valor @@ (ind :> Null)]]
    \o [j \in 1..Len(right) |->
           [Mes_nome |-> right[j].Mes_nome, Raca |-> right[j].Raca,
            Valor |-> [x \in leftInds |-> Null] @@ (ind :> right[j].Valor)]]

\* mutant of OuterMerge: rows holding a blank value are dropped from the result
OuterMerge_dropna(left, right, leftInds, ind) ==
    LET keys == SortKeys({KeyOf(left[i]) : i \in 1..Len(left)}
                         \cup {KeyOf(right[j]) : j \in 1..Len(right)})
        all == Flatten([k \in 1..Len(keys) |-> MergeKey(left, right, leftInds, ind, keys[k])])
    IN SelectSeq(all, LAMBDA r : \A x \in DOMAIN r.Valor : ~r.Valor[x].null)

\* pd.merge(left, right, on=["Mes_nome","Raca"], how="outer"); right's value column is Valor_<ind>
OuterMerge(left, right, leftInds, ind) ==
    LET keys == SortKeys({KeyOf(left[i]) : i \in 1..Len(left)}
                         \cup {KeyOf(right[j]) : j \in 1..Len(right)})
    IN Flatten([k \in 1..Len(keys) |-> MergeKey(left, right, leftInds, ind, keys[k])])

\* the loop "for ind in indicadores_selec" after its first k iterations (k >= 1)
RECURSIVE DfMerge(_, _, _, _, _)
DfMerge(recs, sel, meses, rs, k) ==
    LET df_ind == DfInd(recs, sel[k], meses, rs)
    IN IF k = 1
       THEN [i \in 1..Len(df_ind) |->
                [Mes_nome |-> df_ind[i].Mes_nome, Raca |-> df_ind[i].Raca,
                 Valor |-> (sel[1] :> df_ind[i].Valor)]]
       ELSE OuterMerge(DfMerge(recs, sel, meses, rs, k - 1), df_ind,
                       {sel[n] : n \in 1..(k - 1)}, sel[k])

\* mutant of IsEmptyResult: only the "is None" half of the test
IsEmptyResult_none_only(sel, rows) == Len(sel) = 0

\* df_merge is None or df_merge.empty
IsEmptyResult(sel, rows) == Len(sel) = 0 \/ Len(rows) = 0

\* ------------------------------------------------------------------- sort
\* mutant of MonthPos: the position in the calendar, not in the chosen list
MonthPos_calendar(m, categories) ==
    IF m \in Range(ordem_meses)
    THEN CHOOSE i \in 1..Len(ordem_meses) : ordem_meses[i] = m
    ELSE Len(ordem_meses) + 1

\* the code of m in pd.Categorical(categories=meses_escolhidos, ordered=True); NaN sorts last
MonthPos(m, categories) ==
    IF m \in Range(categories)
    THEN CHOOSE i \in 1..Len(categories) : categories[i] = m
    ELSE Len(categories) + 1

RowBefore(a, b, categories) ==
    \/ MonthPos(a.Mes_nome, categories) < MonthPos(b.Mes_nome, categories)
    \/ /\ MonthPos(a.Mes_nome, categories) = MonthPos(b.Mes_nome, categories)
       /\ StrLess(a.Raca, b.Raca)

\* df_merge.sort_values(["Mes_nome","Raca"]): a stable sort on the two keys
SortValues(rows, categories) ==
    LET n == Len(rows)
        Before(i, j) == RowBefore(rows[i], rows[j], categories)
                        \/ (~RowBefore(rows[j], rows[i], categories) /\ i < j)
        at(p) == CHOOSE i \in 1..n : Cardinality({j \in 1..n : Before(j, i)}) = p - 1
    IN [p \in 1..n |-> rows[at(p)]]

\* round(x, 2) on a value in thousandths that is not a tie, in hundredths
Round2(x) == (x + 5) \div 10

RoundCell(c) == IF c.null THEN c ELSE Val(Round2(c.v))

\* df_show: every numeric column rounded, blanks kept
DfShow(rows) ==
    [i \in 1..Len(rows) |->
        [rows[i] EXCEPT !.Valor = [x \in DOMAIN rows[i].Valor |-> RoundCell(rows[i].Valor[x])]]]

\* ---------------------------------------------------------------- actions
NoTable == [columns |-> <<>>, data |-> <<>>]
NoChart == [line |-> <<>>, bars |-> <<>>]

Init ==
    /\ pc = "start"
    /\ source = NoTable
    /\ df = NoTable
    /\ orig = <<>>
    /\ warnings = {}
    /\ crash = "none"
    /\ df_final = <<>>
    /\ meses_disponiveis = <<>>
    /\ indicadores = <<>>
    /\ indicadores_selec = <<>>
    /\ meses_escolhidos = <<>>
    /\ racas_escolhidas = <<>>
    /\ df_merge = <<>>
    /\ df_show = <<>>
    /\ table_rendered = FALSE
    /\ chart = NoChart
    /\ name_in = <<>>
    /\ name_out = <<>>

\* lines 41-43: rip.xlsx is not there
FileMissing ==
    /\ pc = "start"
    /\ pc' = "stopped_missing"
    /\ warnings' = warnings \cup {"file_missing"}
    /\ UNCHANGED <<source, df, orig, crash, df_final, meses_disponiveis, indicadores,
                   indicadores_selec, meses_escolhidos, racas_escolhidas, df_merge,
                   df_show, table_rendered, chart, name_in, name_out>>

\* lines 46-49: read the sheet, drop blank rows, then blank columns
Load ==
    /\ pc = "start"
    /\ \E t \in SourceTables :
          /\ source' = t
          /\ df' = LoadTable(t)
    /\ pc' = "loaded"
    /\ UNCHANGED <<orig, warnings, crash, df_final, meses_disponiveis, indicadores,
                   indicadores_selec, meses_escolhidos, racas_escolhidas, df_merge,
                   df_show, table_rendered, chart, name_in, name_out>>

\* lines 52-64: orig[0] fails on a table without columns; the assignment to
\* df.columns fails when the list of new names is shorter than the table is wide
Rename ==
    /\ pc = "loaded"
    /\ orig' = df.columns
    /\ IF Len(df.columns) = 0
       THEN /\ pc' = "crash"
            /\ crash' = "IndexError_orig"
            /\ UNCHANGED <<df, warnings>>
       ELSE /\ warnings' = IF IsOdd(Len(df.columns) - 1)
                           THEN warnings \cup {"odd_columns"} ELSE warnings
            /\ IF Len(novos_nomes(df.columns)) # Len(df.columns)
               THEN /\ pc' = "crash"
                    /\ crash' = "ValueError_columns"
                    /\ UNCHANGED df
               ELSE /\ pc' = "renamed"
                    /\ df' = [df EXCEPT !.columns = novos_nomes(df.columns)]
                    /\ UNCHANGED crash
    /\ UNCHANGED <<source, df_final, meses_disponiveis, indicadores,
                   indicadores_selec, meses_escolhidos, racas_escolhidas, df_merge,
                   df_show, table_rendered, chart, name_in, name_out>>

\* lines 67-84: melt, split Mes_Raca, keep the two breeds, list months and indicators;
\* with no value column the split yields no columns and the assignment of line 69 fails
Reshape ==
    /\ pc = "renamed"
    /\ IF Len(df.columns) = 1
       THEN /\ pc' = "crash"
            /\ crash' = "ValueError_split"
            /\ UNCHANGED <<df_final, meses_disponiveis, indicadores>>
       ELSE /\ pc' = "reshaped"
            /\ df_final' = KeepKnownBreeds(LongRecords(df))
            /\ meses_disponiveis' = MesesDisponiveis(KeepKnownBreeds(LongRecords(df)))
            /\ indicadores' = Indicadores(KeepKnownBreeds(LongRecords(df)))
            /\ UNCHANGED crash
    /\ UNCHANGED <<source, df, orig, warnings, indicadores_selec, meses_escolhidos,
                   racas_escolhidas, df_merge, df_show, table_rendered, chart,
                   name_in, name_out>>

\* lines 86-93: the three multiselects; the default of the first one reads
\* indicadores[0] and indicadores[1]
Controls ==
    /\ pc = "reshaped"
    /\ IF Len(indicadores) < 2
       THEN /\ pc' = "crash"
            /\ crash' = "IndexError_default"
            /\ UNCHANGED <<indicadores_selec, meses_escolhidos, racas_escolhidas>>
       ELSE /\ pc' = "selected"
            /\ indicadores_selec' \in DistinctSeqs(Range(indicadores), Len(indicadores))
            /\ meses_escolhidos' \in
                  DistinctSeqs(Range(meses_disponiveis), Len(meses_disponiveis))
            /\ racas_escolhidas' \in DistinctSeqs(Range(racas), Len(racas))
            /\ UNCHANGED crash
    /\ UNCHANGED <<source, df, orig, warnings, df_final, meses_disponiveis, indicadores,
                   df_merge, df_show, table_rendered, chart, name_in, name_out>>

\* lines 95-97
TooFewIndicators ==
    /\ pc = "selected"
    /\ Len(indicadores_selec) < 2
    /\ pc' = "halt_few"
    /\ warnings' = warnings \cup {"too_few_indicators"}
    /\ UNCHANGED <<source, df, orig, crash, df_final, meses_disponiveis, indicadores,
                   indicadores_selec, meses_escolhidos, racas_escolhidas, df_merge,
                   df_show, table_rendered, chart, name_in, name_out>>

\* lines 100-112
Pivot ==
    /\ pc = "selected"
    /\ Len(indicadores_selec) >= 2
    /\ LET rows == DfMerge(df_final, indicadores_selec, meses_escolhidos,
                           racas_escolhidas, Len(indicadores_selec))
       IN /\ df_merge' = rows
          /\ IF IsEmptyResult(indicadores_selec, rows)
             THEN /\ pc' = "halt_empty"
                  /\ warnings' = warnings \cup {"empty_result"}
             ELSE /\ pc' = "merged"
                  /\ UNCHANGED warnings
    /\ UNCHANGED <<source, df, orig, crash, df_final, meses_disponiveis, indicadores,
                   indicadores_selec, meses_escolhidos, racas_escolhidas,
                   df_show, table_rendered, chart, name_in, name_out>>

\* lines 114-196
Render ==
    /\ pc = "merged"
    /\ df_merge' = SortValues(df_merge, meses_escolhidos)
    /\ df_show' = DfShow(SortValues(df_merge, meses_escolhidos))
    /\ table_rendered' = TRUE
    /\ chart' = [line |-> indicadores_selec[1], bars |-> indicadores_selec[2]]
    /\ pc' = "rendered"
    /\ UNCHANGED <<source, df, orig, warnings, crash, df_final, meses_disponiveis,
                   indicadores, indicadores_selec, meses_escolhidos, racas_escolhidas,
                   name_in, name_out>>

Next ==
    \/ FileMissing
    \/ Load
    \/ Rename
    \/ Reshape
    \/ Controls
    \/ TooFewIndicators
    \/ Pivot
    \/ Render

Spec == Init /\ [][Next]_vars

\* ------------------------------------------- canonical_month on its own
CanonAlphabet == {"j", "J", "a", "n", "x", " ", "a_acute", "acute"}

EnumeratedNames == UNION {[1..n -> CanonAlphabet] : n \in 0..MaxLen}

SampleNames ==
    Range(ordem_meses) \cup
    {<<"M", "a", "r", "c_cedilla", "o">>, <<"D", "E", "Z", "E", "M", "B", "R", "O">>,
     <<" ", "f", "e", "v", " ">>, <<"j", "a", "n", "u", "a", "r", "y">>,
     JanHib, FevZeb, Obs, GMD}

InitCanon ==
    /\ pc = "canon_input"
    /\ name_in \in EnumeratedNames \cup SampleNames
    /\ name_out = <<>>
    /\ source = NoTable
    /\ df = NoTable
    /\ orig = <<>>
    /\ warnings = {}
    /\ crash = "none"
    /\ df_final = <<>>
    /\ meses_disponiveis = <<>>
    /\ indicadores = <<>>
    /\ indicadores_selec = <<>>
    /\ meses_escolhidos = <<>>
    /\ racas_escolhidas = <<>>
    /\ df_merge = <<>>
    /\ df_show = <<>>
    /\ table_rendered = FALSE
    /\ chart = NoChart

\* one call canonical_month(name_in)
Canonicalize ==
    /\ pc = "canon_input"
    /\ name_out' = canonical_month(name_in)
    /\ pc' = "canon_done"
    /\ UNCHANGED <<source, df, orig, warnings, crash, df_final, meses_disponiveis,
                   indicadores, indicadores_selec, meses_escolhidos, racas_escolhidas,
                   df_merge, df_show, table_rendered, chart, name_in>>

NextCanon == Canonicalize

SpecCanon == InitCanon /\ [][NextCanon]_vars

\* ============================================================ properties
\* the run has got past the renaming of the columns
Renamed ==
    /\ pc \notin {"start", "stopped_missing", "loaded", "canon_input", "canon_done"}
    /\ crash \notin {"IndexError_orig", "ValueError_columns"}

\* the run has built df_final
Reshaped == Renamed /\ pc # "renamed" /\ crash # "ValueError_split"

\* the user's selection has been read
Selected == pc \in {"selected", "halt_few", "halt_empty", "merged", "rendered"}

PositionIn(seq, x) == CHOOSE i \in 1..Len(seq) : seq[i] = x

\* value column j (2, 3, ...) of a table belongs to the pair that starts at this column
PairStart(j) == IF j % 2 = 0 THEN j ELSE j - 1
BreedAt(j) == IF j % 2 = 0 THEN Hibrido ELSE Zebu

\* C1: a table whose number of value columns is odd gets the odd-column warning,
\* loses its last column and the run goes on with the renaming; it never crashes.
C1_OddColumnsProceed ==
    (pc \notin {"start", "stopped_missing", "loaded"} /\ Len(orig) > 0 /\ IsOdd(Len(orig) - 1))
    => /\ "odd_columns" \in warnings
       /\ pc # "crash"
       /\ Len(df.columns) = Len(orig) - 1

\* C2: whatever the number of distinct indicator names, building the indicator
\* control never crashes, and a selection of fewer than 2 indicators ends the run
\* in the "too few indicators" halt.
C2_FewIndicatorsNeverCrash ==
    /\ crash # "IndexError_default"
    /\ (pc \in {"halt_few", "halt_empty", "rendered"} /\ Len(indicadores_selec) < 2)
       => pc = "halt_few"

\* the non-null (Month, Breed, Value) triples the loaded wide table holds for ind,
\* read by position, values rounded to 2 decimals
WideTriples(ind) ==
    {<<canonical_month(orig[PairStart(j)]), BreedAt(j), Round2(df.data[i][j].v)>> :
        <<i, j>> \in {x \in (1..Len(df.data)) \X (2..Len(orig)) :
                         /\ df.data[x[1]][1] = Val(ind)
                         /\ ~df.data[x[1]][x[2]].null}}

\* the non-null triples the rendered table holds for ind
PivotTriples(ind) ==
    {<<df_show[k].Mes_nome, df_show[k].Raca, df_show[k].Valor[ind].v>> :
        k \in {n \in 1..Len(df_show) : ~df_show[n].Valor[ind].null}}

AllSelected ==
    /\ Range(indicadores_selec) = Range(indicadores)
    /\ Range(meses_escolhidos) = Range(meses_disponiveis)
    /\ Range(racas_escolhidas) = {Zebu, Hibrido}

AllMonthsRecognized ==
    \A j \in 2..Len(orig) : canonical_month(orig[PairStart(j)]) \in Range(ordem_meses)

UniqueKeys(rows) ==
    \A a, b \in 1..Len(rows) : (KeyOf(rows[a]) = KeyOf(rows[b])) => a = b

DistinctIndicatorRows ==
    \A a, b \in 1..Len(df.data) :
        (~df.data[a][1].null /\ df.data[a][1] = df.data[b][1]) => a = b

DistinctPairMonths ==
    \A a, b \in 2..Len(orig) :
        (a % 2 = 0 /\ b % 2 = 0 /\ canonical_month(orig[a]) = canonical_month(orig[b]))
        => a = b

\* C4 as stated: the rendered table never has two rows with the same (Month, Breed).
C4_OneRowPerKey == pc = "rendered" => UniqueKeys(df_merge)

\* C4 amended: when no two rows of the table share an indicator name and no two
\* column pairs have the same canonical month, the rendered table has exactly one
\* row per (Month, Breed).
C4_OneRowPerKeyDistinct ==
    (pc = "rendered" /\ DistinctIndicatorRows /\ DistinctPairMonths) => UniqueKeys(df_merge)

C4_Witness ==
    /\ pc = "rendered" /\ DistinctIndicatorRows /\ DistinctPairMonths
    /\ Len(df_merge) = 4

\* indicator y has no value at (m, b): no record, or blank ones only
LacksValue(y, m, b) ==
    \A k \in 1..Len(df_final) :
        (df_final[k].Indicador = Val(y) /\ df_final[k].Mes_nome = m /\ df_final[k].Raca = b)
        => df_final[k].Valor.null

\* record k of df_final is a value of a selected indicator at a selected (Month, Breed)
SelectedValue(k) ==
    /\ ~df_final[k].Indicador.null
    /\ df_final[k].Indicador.v \in Range(indicadores_selec)
    /\ df_final[k].Mes_nome \in Range(meses_escolhidos)
    /\ df_final[k].Raca \in Range(racas_escolhidas)
    /\ ~df_final[k].Valor.null

\* C5: if selected indicator X has a value at a selected (Month, Breed) and selected
\* indicator Y has none, the merged table has a row for (Month, Breed) with X's
\* value and a blank for Y.
C5_OuterJoinComplete ==
    pc \in {"merged", "rendered"}
    => \A k \in 1..Len(df_final) : \A y \in Range(indicadores_selec) :
          (SelectedValue(k) /\ LacksValue(y, df_final[k].Mes_nome, df_final[k].Raca))
          => \E n \in 1..Len(df_merge) :
                /\ KeyOf(df_merge[n]) = <<df_final[k].Mes_nome, df_final[k].Raca>>
                /\ df_merge[n].Valor[df_final[k].Indicador.v] = df_final[k].Valor
                /\ df_merge[n].Valor[y].null

C5_Witness ==
    /\ pc = "rendered"
    /\ \E k \in 1..Len(df_final) : \E y \in Range(indicadores_selec) :
          SelectedValue(k) /\ LacksValue(y, df_final[k].Mes_nome, df_final[k].Raca)

BreedRank(b) == IF b = Hibrido THEN 1 ELSE 2

\* C6: the rows of the rendered table are ordered by the position of their month
\* in the chosen sequence, then Hibrido before Zebu, and every row's month is in
\* the chosen sequence.
C6_OrderedByChosenMonths ==
    pc = "rendered"
    => /\ \A k \in 1..Len(df_merge) : df_merge[k].Mes_nome \in Range(meses_escolhidos)
       /\ \A a, b \in 1..Len(df_merge) :
             a < b =>
               LET pa == PositionIn(meses_escolhidos, df_merge[a].Mes_nome)
                   pb == PositionIn(meses_escolhidos, df_merge[b].Mes_nome)
               IN pa < pb \/ (pa = pb /\ BreedRank(df_merge[a].Raca) <= BreedRank(df_merge[b].Raca))

C6_Witness ==
    /\ pc = "rendered"
    /\ meses_escolhidos = <<Fevereiro, Janeiro>>
    /\ Len(racas_escolhidas) = 2
    /\ Len(df_merge) >= 4

Prefixes ==
    <<<<"j", "a", "n">>, <<"f", "e", "v">>, <<"m", "a", "r">>, <<"a", "b", "r">>,
      <<"m", "a", "i">>, <<"j", "u", "n">>, <<"j", "u", "l">>, <<"a", "g", "o">>,
      <<"s", "e", "t">>, <<"o", "u", "t">>, <<"n", "o", "v">>, <<"d", "e", "z">>>>

ExpectedName(k, name) ==
    IF k \in Range(Prefixes) THEN ordem_meses[PositionIn(Prefixes, k)] ELSE name

\* C7 as stated: the lookup key is the first three characters after stripping
\* accents and lower-casing; an unmatched key returns the input unchanged, a
\* matched key the canonical name.
C7_KeyWithoutTrim ==
    pc = "canon_done"
    => name_out = ExpectedName(Slice3(lower(strip_accents(name_in))), name_in)

\* C7 amended: the lookup key is the first three characters after stripping
\* accents, trimming leading and trailing whitespace and lower-casing; an
\* unmatched key returns the input unchanged, a matched key the canonical name.
C7_KeyWithTrim ==
    pc = "canon_done"
    => name_out = ExpectedName(Slice3(lower(strip(strip_accents(name_in)))), name_in)

C7_Witness ==
    /\ pc = "canon_done"
    /\ name_in = <<" ", "J", "a_acute", "n">>
    /\ name_out = Janeiro

NoMatch ==
    \A k \in 1..Len(df_final) :
        ~ /\ \E x \in Range(indicadores_selec) : df_final[k].Indicador = Val(x)
          /\ df_final[k].Mes_nome \in Range(meses_escolhidos)
          /\ df_final[k].Raca \in Range(racas_escolhidas)

NothingRendered == ~table_rendered /\ chart = NoChart /\ df_show = <<>>

\* C8: past the selection, 2 or more indicators with no matching record end in the
\* "empty result" halt with nothing rendered; fewer than 2 indicators end in the
\* "too few indicators" halt whatever the months and breeds; the two differ.
C8_EmptyResultHalt ==
    (Selected /\ pc # "selected")
    => /\ (Len(indicadores_selec) < 2)
          => /\ pc = "halt_few"
             /\ "too_few_indicators" \in warnings /\ "empty_result" \notin warnings
             /\ NothingRendered
       /\ (Len(indicadores_selec) >= 2 /\ NoMatch)
          => /\ pc = "halt_empty"
             /\ "empty_result" \in warnings /\ "too_few_indicators" \notin warnings
             /\ NothingRendered
       /\ (Len(indicadores_selec) >= 2 /\ ~NoMatch) => pc \in {"merged", "rendered"}

C8_Witness ==
    /\ pc = "halt_empty"
    /\ Len(indicadores_selec) >= 2
    /\ meses_escolhidos = <<>>
    /\ Len(racas_escolhidas) = 2

\* C9: after the renaming of an even number of value columns, the identifier
\* keeps its name, the number of columns is unchanged, and the k-th pair is named
\* M.Hibrido, M.Zebu with M the canonical month of the pair's first header.
C9_PositionalPairing ==
    (Renamed /\ ~IsOdd(Len(orig) - 1))
    => /\ Len(df.columns) = Len(orig)
       /\ df.columns[1] = orig[1]
       /\ \A j \in 2..Len(orig) :
             df.columns[j] = canonical_month(orig[PairStart(j)]) \o <<".">> \o BreedAt(j)

C9_Witness ==
    /\ pc = "renamed"
    /\ Len(orig) = 5
    /\ canonical_month(orig[2]) # canonical_month(orig[3])
    /\ canonical_month(orig[4]) = Obs

\* the source lists, per month, a Hybrid column then a Zebu column
MonthBlocks(t) ==
    /\ ~IsOdd(Len(t.columns) - 1)
    /\ \A j \in 2..Len(t.columns) :
          /\ canonical_month(t.columns[j]) \in Range(ordem_meses)
          /\ canonical_month(t.columns[j]) = canonical_month(t.columns[PairStart(j)])

\* C10: for a source in month blocks, every non-null value of the source is in
\* the long-form records under its own block's month and its own column's breed,
\* also when blank columns were removed at load.
C10_NoRelabel ==
    (Reshaped /\ MonthBlocks(source))
    => \A i \in 1..Len(source.data) : \A j \in 2..Len(source.columns) :
          ~source.data[i][j].null
          => \E k \in 1..Len(df_final) :
                /\ df_final[k].Indicador = source.data[i][1]
                /\ df_final[k].Mes_nome = canonical_month(source.columns[j])
                /\ df_final[k].Raca = BreedAt(j)
                /\ df_final[k].Valor = source.data[i][j]
====
